---- MODULE Spec2Model ----
(***************************************************************************)
(* Model of pkg/generate (go-kafka-message-generator): generateFile turns  *)
(* a model.Message into a Go file: the imports, the message's struct, a    *)
(* struct and a constructor New... per common and inline record, and the   *)
(* decode routine Read<Name>.  The emitted routine is then run, statement  *)
(* by statement, on a byte buffer; Run compiles the files of a directory.  *)
(*                                                                         *)
(* Go strings that the generator inspects (Versions, Type) and the names   *)
(* it builds are sequences of one-character strings / tokens.  Bytes are   *)
(* 0..255.  A uint64 is held as its two's-complement reading (2^64-1 is    *)
(* -1) and compared unsigned.  The buffer handed to the routine is a slice *)
(* with cap(data) = len(data).                                             *)
(***************************************************************************)
EXTENDS Integers, Sequences, FiniteSets, TLC

VARIABLES spec, cb, pc, wire, data, version, res, fi, arrLen, i, err, cause, marks, versions,
          clause, entries, entry, written

\* What Run keeps over the units of one run.
runVars == <<entries, entry, written>>

vars == <<spec, cb, pc, wire, data, version, res, fi, arrLen, i, err, cause, marks, versions,
          clause, runVars>>

\* ---------------------------------------------------------------- bounds
\* Most fields of a message in the multi-field input schemas.
MaxFields == 2
\* Longest enumerated head of an input buffer.
MaxHead == 2
\* Length of the fixed padding that may follow the head (room for a 16-byte uuid).
PadLen == 16
\* Largest protocol version the routine is called with.
MaxVersion == 3
\* Cap on modelled loop iterations of one array field.
MaxIter == 3
\* Longest version-gating string handed to addVersionIfClause on its own.
MaxVerLen == 3
\* Most schema files in the input directory of one run.
MaxUnits == 3

\* ---------------------------------------------------------------- helpers
Min(S) == CHOOSE x \in S : \A y \in S : x <= y

SeqsUpTo(S, n) == UNION {[1..k -> S] : k \in 0..n}

\* \d of the regular expressions.
IsDigit(c) == c \in {"0", "1", "2", "3", "4", "5", "6", "7", "8", "9"}

\* Last index of the longest digit run of s starting at index k (k-1 if s[k] is no digit):
\* what a greedy (\d+) anchored at k consumes.
RunEnd(s, k) ==
  LET stop == {j \in k..Len(s) : ~IsDigit(s[j])}
  IN  IF stop = {} THEN Len(s) ELSE Min(stop) - 1

\* versionRangeRegexp.FindStringSubmatch(s): "(\d+)-(\d+)", unanchored, leftmost match.
\* Go returns [whole, group1, group2] (length 3) or nil (length 0).
versionRangeRegexp(s) ==
  LET starts == {k \in 1..Len(s) :
                   /\ IsDigit(s[k])
                   /\ RunEnd(s, k) + 2 <= Len(s)
                   /\ s[RunEnd(s, k) + 1] = "-"
                   /\ IsDigit(s[RunEnd(s, k) + 2])}
  IN  IF starts = {} THEN <<>>
      ELSE LET k == Min(starts)
               j == RunEnd(s, k)
               e == RunEnd(s, j + 2)
           IN  <<SubSeq(s, k, e), SubSeq(s, k, j), SubSeq(s, j + 2, e)>>

\* versionMinRegexp.FindStringSubmatch(s): "(\d+)\+", unanchored; [whole, group1] or nil.
versionMinRegexp(s) ==
  LET starts == {k \in 1..Len(s) :
                   /\ IsDigit(s[k])
                   /\ RunEnd(s, k) + 1 <= Len(s)
                   /\ s[RunEnd(s, k) + 1] = "+"}
  IN  IF starts = {} THEN <<>>
      ELSE LET k == Min(starts)
               j == RunEnd(s, k)
           IN  <<SubSeq(s, k, j + 1), SubSeq(s, k, j)>>

\* versionRegexp.FindStringSubmatch(s): "(\d+)", unanchored; [whole, group1] or nil.
versionRegexp(s) ==
  LET starts == {k \in 1..Len(s) : IsDigit(s[k])}
  IN  IF starts = {} THEN <<>>
      ELSE LET k == Min(starts)
               j == RunEnd(s, k)
           IN  <<SubSeq(s, k, j), SubSeq(s, k, j)>>

\* The three tests of addVersionIfClause on the matches m of its regular expressions
\* (range, minimum, exact), tried in that order.
versionClause(mRange, mMin, mExact) ==
  IF Len(mRange) = 2
  THEN [ok |-> TRUE,
        lines |-> << [fmt |-> "if version >= %d || version <= %d",
                      args |-> <<mRange[1], mRange[2]>>] >>]
  ELSE IF Len(mMin) = 1
  THEN [ok |-> TRUE, lines |-> << [fmt |-> "if version >= %d", args |-> <<mMin[1]>>] >>]
  ELSE IF Len(mExact) = 1
  THEN [ok |-> TRUE, lines |-> << [fmt |-> "if version == %d", args |-> <<mExact[1]>>] >>]
  ELSE [ok |-> FALSE, lines |-> <<>>]

\* addVersionIfClause(cb, versions): the lines it adds to the buffer and its result.
\* Go's m[0], m[1] are m[1], m[2] here.  The line is kept as its format and arguments.
addVersionIfClause(vs) == versionClause(versionRangeRegexp(vs), versionMinRegexp(vs), versionRegexp(vs))

\* ---------------------------------------------------------------- emission
PrimitiveKinds == {"int8", "int16", "int32", "int64", "string", "bytes", "uuid"}

\* arrayRegex.FindStringSubmatch(t): "^(\[])?(.+)$" on a type string held as tokens,
\* "[]" being one token.  [whole, group1, group2], or nil when (.+) has nothing to match.
arrayRegex(t) ==
  IF t = <<>> THEN <<>>
  ELSE IF Len(t) >= 2 /\ t[1] = "[]" THEN <<t, <<"[]">>, Tail(t)>>
  ELSE <<t, <<>>, t>>

\* deconstructFieldType(fieldType): (m[1] == "[]", m[2]); indexing a nil m panics.
deconstructFieldType(fieldType) ==
  [panic   |-> arrayRegex(fieldType) = <<>>,
   isArray |-> arrayRegex(fieldType) # <<>> /\ arrayRegex(fieldType)[2] = <<"[]">>,
   ft      |-> IF arrayRegex(fieldType) = <<>> THEN <<>> ELSE arrayRegex(fieldType)[3]]

\* The block addReadString(cb, fieldName, appendToArray) adds.
addReadString(fieldName, appendToArray) ==
  [op |-> "string", field |-> fieldName, append |-> appendToArray]

\* The block addReadBytes(cb, fieldName, appendToArray) adds.
addReadBytes(fieldName, appendToArray) ==
  [op |-> "bytes", field |-> fieldName, append |-> appendToArray]

\* strings.ToUpper of one letter.
ToUpper(c) ==
  LET lower == <<"a", "b", "c", "d", "e", "f", "g", "h", "i", "j", "k", "l", "m",
                 "n", "o", "p", "q", "r", "s", "t", "u", "v", "w", "x", "y", "z">>
      upper == <<"A", "B", "C", "D", "E", "F", "G", "H", "I", "J", "K", "L", "M",
                 "N", "O", "P", "Q", "R", "S", "T", "U", "V", "W", "X", "Y", "Z">>
  IN  IF \E k \in 1..26 : lower[k] = c THEN upper[CHOOSE k \in 1..26 : lower[k] = c] ELSE c

\* capitalize(s): strings.ToUpper(s[0:1]) + s[1:], s a name held as its characters.
capitalize(s) == <<ToUpper(s[1])>> \o Tail(s)

\* The constructor name addAllocateCommonStruct calls: "New" + capitalize(ft).
addAllocateCommonStruct(fieldType) ==
  <<"N", "e", "w">> \o capitalize(deconstructFieldType(fieldType).ft)

\* The constructor name addAllocateInlineStruct calls: "New" + name + capitalize(ft).
addAllocateInlineStruct(name, fieldType) ==
  <<"N", "e", "w">> \o name \o capitalize(deconstructFieldType(fieldType).ft)

\* The read step addReadField emits for one field: the switch on fieldType, inside the
\* array loop (isArray) or on its own.
readStep(name, field, isArray, ft) ==
  IF ft = <<"string">> THEN addReadString(field.Name, isArray)
  ELSE IF ft = <<"bytes">> THEN addReadBytes(field.Name, isArray)
  ELSE IF Len(ft) = 1 /\ ft[1] \in {"int8", "int16", "int32", "int64", "uuid"}
  THEN [op |-> ft[1], field |-> field.Name, append |-> isArray]
  ELSE IF Len(field.Fields) > 0
  THEN [op |-> "inline", field |-> field.Name, append |-> isArray, owner |-> name, type |-> ft,
        ctor |-> addAllocateInlineStruct(name, field.Type)]
  ELSE [op |-> "common", field |-> field.Name, append |-> isArray, type |-> ft,
        ctor |-> addAllocateCommonStruct(field.Type)]

\* The body of addReadField once versions (v) and isArray, fieldType (d) are computed.
readField(name, field, v, d) ==
  [err  |-> IF ~v.ok \/ field.Default.type = "nil" THEN ""
            ELSE IF field.Type = <<"string">>
            THEN IF field.Default.type = "string" THEN ""
                 ELSE "unexpected value type for string default"
            ELSE IF field.Type \in {<<"int32">>, <<"int64">>}
            THEN IF field.Default.type = "int" THEN ""
                 ELSE "unexpected value type for int default"
            ELSE "unrecognized field type",
   stmt |-> [guard |-> v.lines,
             array |-> d.isArray,
             read  |-> readStep(name, field, d.isArray, d.ft),
             else  |-> IF ~v.ok THEN <<>>
                       ELSE IF field.Type = <<"string">> /\ field.Default.type = "string"
                       THEN << [fmt |-> "res.%s = %s", args |-> <<field.Name, field.Default.val>>] >>
                       ELSE IF field.Type \in {<<"int32">>, <<"int64">>} /\ field.Default.type = "int"
                       THEN << [fmt |-> "res.%s = %d", args |-> <<field.Name, field.Default.val>>] >>
                       ELSE <<>>]]

\* addReadField(cb, name, field): the statement added for the field and the error returned
\* ("" for nil).  guard holds the lines of addVersionIfClause, else the default assignment.
addReadField(name, field) ==
  readField(name, field, addVersionIfClause(field.Versions), deconstructFieldType(field.Type))

\* What the loop over a field list has added once the statement of one field is
\* followed by those of the rest: the first error ends it.
addNext(one, rest) ==
  IF one.err # "" THEN [err |-> one.err, read |-> <<one.stmt>>]
  ELSE [err |-> rest.err, read |-> <<one.stmt>> \o rest.read]

\* The loop of generateFile over spec.Fields: statements added so far, stopping at the
\* first error.
RECURSIVE addReadFields(_, _, _)
addReadFields(name, fields, k) ==
  IF k > Len(fields) THEN [err |-> "", read |-> <<>>]
  ELSE addNext(addReadField(name, fields[k]), addReadFields(name, fields, k + 1))

\* The fields collectImports scans: the message's and those of its common records.
RECURSIVE commonFields(_, _)
commonFields(css, k) ==
  IF k > Len(css) THEN <<>> ELSE css[k].Fields \o commonFields(css, k + 1)

scannedFields(m) == m.Fields \o commonFields(m.CommonStructs, 1)

\* A dependsOn map in which every facility starts out true.
dependsOnAll(m) == {"bytes", "encoding/binary", "fmt"}

\* The dependsOn map of collectImports at the end of its scan, as the set of its true keys.
dependsOn(m) ==
  {"encoding/binary"}
  \cup (IF \E k \in 1..Len(scannedFields(m)) :
             \/ deconstructFieldType(scannedFields(m)[k].Type).isArray
             \/ deconstructFieldType(scannedFields(m)[k].Type).ft = <<"bytes">>
        THEN {"bytes"} ELSE {})
  \cup (IF \E k \in 1..Len(scannedFields(m)) :
             \/ deconstructFieldType(scannedFields(m)[k].Type).isArray
             \/ deconstructFieldType(scannedFields(m)[k].Type).ft
                  \notin {<<"int8">>, <<"int16">>, <<"int32">>, <<"int64">>, <<"uuid">>}
        THEN {"fmt"} ELSE {})

\* Byte order of the three package names, as sort.Strings compares them.
stringsLess(a, b) ==
  LET order == <<"bytes", "encoding/binary", "fmt">>
  IN  (CHOOSE k \in 1..3 : order[k] = a) < (CHOOSE k \in 1..3 : order[k] = b)

\* sort.Strings over the keys gathered from the map (whose iteration order is arbitrary).
sortStrings(S) ==
  CHOOSE q \in [1..Cardinality(S) -> S] :
    /\ {q[k] : k \in 1..Cardinality(S)} = S
    /\ \A k \in 1..Cardinality(S) - 1 : stringsLess(q[k], q[k + 1])

collectImports(m) == sortStrings(dependsOn(m))

\* collectInlineStructs(fields): every field with Fields, each before the ones nested in it.
RECURSIVE collectInlineStructs(_)
collectInlineStructs(fields) ==
  IF fields = <<>> THEN <<>>
  ELSE (IF Len(Head(fields).Fields) > 0
        THEN <<Head(fields)>> \o collectInlineStructs(Head(fields).Fields)
        ELSE <<>>)
       \o collectInlineStructs(Tail(fields))

\* The Go type addStructFields writes for one field.
structFieldType(name, field) ==
  LET fieldType == IF field.Type = <<"uuid">> THEN <<"uint16">>
                   ELSE IF field.Type = <<"bytes">> THEN <<"[]byte">>
                   ELSE field.Type
  IN  IF Len(field.Fields) > 0
      THEN IF deconstructFieldType(fieldType).isArray
           THEN <<"[]">> \o name \o deconstructFieldType(fieldType).ft
           ELSE name \o fieldType
      ELSE fieldType

\* addStructFields(cb, name, fields): one line per field, its name and its Go type.
addStructFields(name, fields) ==
  [k \in 1..Len(fields) |-> [name |-> fields[k].Name, type |-> structFieldType(name, fields[k])]]

\* A record as generateFile adds it: its type definition and its constructor, whose
\* statements (and error) are those addReadField adds for its fields.
addStruct(kind, src, v, type, fields, ret, added) ==
  [err |-> added.err,
   rec |-> [kind |-> kind, src |-> src, guard |-> v.lines, type |-> type, fields |-> fields,
            ctor |-> <<"N", "e", "w">> \o ret, ret |-> ret, read |-> added.read]]

\* addCommonStruct(cb, name, cs): type <cs.Name> and func New<capitalize(cs.Name)>.
addCommonStruct(name, cs) ==
  addStruct("common", cs, addVersionIfClause(cs.Versions), cs.Name,
            addStructFields(name, cs.Fields), capitalize(cs.Name),
            addReadFields(name, cs.Fields, 1))

\* addInlineStruct(cb, name, field): type <name><fieldType> and
\* func New<name><capitalize(fieldType)>.
addInlineStruct(name, field) ==
  addStruct("inline", field, addVersionIfClause(field.Versions),
            name \o deconstructFieldType(field.Type).ft,
            addStructFields(name, field.Fields),
            name \o capitalize(deconstructFieldType(field.Type).ft),
            addReadFields(name, field.Fields, 1))

\* The records generateFile adds in its two loops, in order: the common records, then
\* collectInlineStructs(spec.Fields).
addedRecords(m) ==
  [k \in 1..Len(m.CommonStructs) |-> addCommonStruct(m.Name, m.CommonStructs[k])]
  \o [k \in 1..Len(collectInlineStructs(m.Fields)) |->
        addInlineStruct(m.Name, collectInlineStructs(m.Fields)[k])]

\* Every field whose Type generateFile hands to deconstructFieldType.
RECURSIVE nestedFields(_, _)
nestedFields(inl, k) ==
  IF k > Len(inl) THEN <<>> ELSE inl[k].Fields \o nestedFields(inl, k + 1)

deconstructedFields(m) == scannedFields(m) \o nestedFields(collectInlineStructs(m.Fields), 1)

\* The index of the first record whose addition returned an error, 0 if none did.
firstError(added) ==
  IF \E k \in 1..Len(added) : added[k].err # ""
  THEN Min({k \in 1..Len(added) : added[k].err # ""})
  ELSE 0

\* What generateFile leaves in cb when no type expression makes it panic: bad is the
\* record at which it returned an error (0: none), own what addReadField added for
\* the message's own fields.
emitted(m, added, bad, own) ==
  [panic   |-> FALSE,
   err     |-> IF bad # 0 THEN added[bad].err ELSE own.err,
   imports |-> collectImports(m),
   type    |-> addStructFields(m.Name, m.Fields),
   records |-> [k \in 1..(IF bad # 0 THEN bad ELSE Len(added)) |-> added[k].rec],
   read    |-> IF bad # 0 THEN <<>> ELSE own.read]

\* generateFile(packageName, spec, cb): what is left in cb and the error returned.  The
\* first error of the common records, the inline records or the message's own fields ends
\* it; records holds what was added up to there.
\* panic: deconstructFieldType indexes a nil match (an empty Type) on the way.
generateFile(m) ==
  IF \E f \in {deconstructedFields(m)[k] : k \in 1..Len(deconstructedFields(m))} :
       deconstructFieldType(f.Type).panic
  THEN [panic |-> TRUE, err |-> "", imports |-> <<>>, type |-> <<>>, records |-> <<>>,
        read |-> <<>>]
  ELSE emitted(m, addedRecords(m), firstError(addedRecords(m)),
               addReadFields(m.Name, m.Fields, 1))

\* Whether the emitted Read<Name> is Go at all.  A guard line is its format with the
\* match strings under %d and no opening brace, and a default assignment follows a
\* guard, so a routine holding either cannot be built or called.
GoParses(read) == \A k \in 1..Len(read) : read[k].guard = <<>> /\ read[k].else = <<>>

\* ---------------------------------------------------------------- the emitted statements, run
\* binary.BigEndian.Uint16(b), b holding at least two bytes.
Uint16(b) == b[1] * 256 + b[2]

\* int8(x) of a byte.
Int8(x) == IF x >= 128 THEN x - 256 ELSE x

\* int16(u) of a uint16.
Int16(u) == IF u >= 32768 THEN u - 65536 ELSE u

\* int32(binary.BigEndian.Uint32(b)) of four bytes.
Int32(b) == Int8(b[1]) * 16777216 + b[2] * 65536 + b[3] * 256 + b[4]

\* int64(binary.BigEndian.Uint64(b)) of eight bytes, kept as its two 32-bit halves.
Int64(b) == <<Int32(SubSeq(b, 1, 4)), Int32(SubSeq(b, 5, 8))>>

\* i < n on uint64 values.
U64Less(a, b) == IF (a < 0) = (b < 0) THEN a < b ELSE b < 0

\* n-- on a uint64: 0 wraps to 2^64-1.
U64Dec(n) == n - 1

\* binary.ReadUvarint(bytes.NewReader(b)): base-128 little-endian groups, the reader being
\* a fresh one over b, so b itself is not advanced.  k is the next byte, x the value so
\* far, s the weight of the next group.  Running out of bytes is an error; the overflow
\* check after ten bytes is out of reach of the buffers used here.
RECURSIVE ReadUvarintFrom(_, _, _, _)
ReadUvarintFrom(b, k, x, s) ==
  IF k > Len(b) THEN [err |-> TRUE, val |-> x]
  ELSE IF b[k] < 128 THEN [err |-> FALSE, val |-> x + b[k] * s]
  ELSE ReadUvarintFrom(b, k + 1, x + (b[k] - 128) * s, s * 128)

ReadUvarint(b) == ReadUvarintFrom(b, 1, 0, 1)

\* How a block ends: it falls through (ok), returns res and an error, or panics.  cause
\* is what the error wraps with %w when it is a "problem building" error.
Ok(v, d) == [st |-> "ok", err |-> "", cause |-> <<>>, val |-> v, data |-> d]

Returns(e, d) == [st |-> "return", err |-> e, cause |-> <<>>, val |-> 0, data |-> d]

Panics(d) == [st |-> "panic", err |-> "", cause |-> <<>>, val |-> 0, data |-> d]

\* The block emitted by addReadString, run on data = d.
execReadString(d) ==
  IF Len(d) < 2 THEN Panics(d)
  ELSE LET stringLen == Uint16(d)
       IN  IF stringLen < 0 THEN Returns("non-nullable field was serialized as null", d)
           ELSE IF stringLen > 32767 THEN Returns("string field had invalid length", d)
           ELSE IF stringLen > Len(d) THEN Panics(d)
           ELSE Ok(SubSeq(d, 1, stringLen), SubSeq(d, stringLen + 1, Len(d)))

\* The block emitted by addReadBytes, run on data = d.
execReadBytes(d) ==
  LET r == ReadUvarint(d)
  IN  IF r.err THEN Returns("problem reading uvarint", d)
      ELSE IF U64Less(r.val, 0) THEN Returns("non-nullable field group was serialized as null", d)
      ELSE IF U64Less(Len(d), r.val) THEN Panics(d)
      ELSE Ok(SubSeq(d, 1, r.val), SubSeq(d, r.val + 1, Len(d)))

\* The zero value of a field of `var res <Name>`, by the struct field type
\* addStructFields declares for it; a struct is the function from its field names.
RECURSIVE ZeroValue(_)
ZeroValue(field) ==
  LET ZeroStruct(fields) ==
        [n \in {fields[k].Name : k \in 1..Len(fields)} |->
           ZeroValue(CHOOSE f \in {fields[k] : k \in 1..Len(fields)} : f.Name = n)]
      named == {k \in 1..Len(spec.CommonStructs) : spec.CommonStructs[k].Name = field.Type}
  IN  IF deconstructFieldType(field.Type).isArray THEN <<>>
      ELSE IF field.Type \in {<<"string">>, <<"bytes">>} THEN <<>>
      ELSE IF field.Type = <<"int64">> THEN <<0, 0>>
      ELSE IF Len(field.Fields) > 0 THEN ZeroStruct(field.Fields)
      ELSE IF named # {} THEN ZeroStruct(spec.CommonStructs[CHOOSE k \in named : TRUE].Fields)
      ELSE 0

\* A loop of a called constructor that is still running after MaxIter passes.
Spins(d) == [st |-> "spin", err |-> "", cause |-> <<>>, val |-> 0, data |-> d]

RECURSIVE execRead(_, _)

\* The loop of an array statement inside a called constructor, from pass j on: n is
\* arrLen, acc the slice appended to so far.
RECURSIVE execLoop(_, _, _, _, _)
execLoop(read, d, n, j, acc) ==
  IF ~U64Less(j, n) THEN Ok(acc, d)
  ELSE IF j >= MaxIter THEN Spins(d)
  ELSE LET r == execRead(read, d)
       IN  IF r.st = "ok" THEN execLoop(read, r.data, n, j + 1, Append(acc, r.val)) ELSE r

\* The body of a called constructor from statement k on, its own data at d and its res
\* at r: `return res, nil` at the end.
RECURSIVE execBody(_, _, _, _)
execBody(body, k, d, r) ==
  IF k > Len(body) THEN Ok(r, d)
  ELSE IF body[k].array
  THEN LET h == ReadUvarint(d)
           l == execLoop(body[k].read, d, U64Dec(h.val), 0, <<>>)
       IN  IF h.err THEN Returns("problem reading uvarint", d)
           ELSE IF l.st = "ok"
           THEN execBody(body, k + 1, l.data, [r EXCEPT ![body[k].read.field] = l.val])
           ELSE l
  ELSE LET o == execRead(body[k].read, d)
       IN  IF o.st = "ok"
           THEN execBody(body, k + 1, o.data, [r EXCEPT ![body[k].read.field] = o.val])
           ELSE o

\* The constructor named ctor, called with data = d: var res, its statements, return.
construct(ctor, d) ==
  LET rec == cb.records[CHOOSE k \in 1..Len(cb.records) : cb.records[k].ctor = ctor]
  IN  execBody(rec.read, 1, d,
               [n \in {rec.src.Fields[k].Name : k \in 1..Len(rec.src.Fields)} |->
                  ZeroValue(CHOOSE f \in {rec.src.Fields[k] : k \in 1..Len(rec.src.Fields)} :
                              f.Name = n)])

\* The lines of addAllocateCommonStruct and addAllocateInlineStruct run on data = d:
\* v, err := New...(data), the error wrapped and returned, else v assigned.  The
\* constructor works on its own copy of the slice header; data is not assigned.
execAllocate(read, d) ==
  LET o == construct(read.ctor, d)
  IN  IF o.st = "ok" THEN Ok(o.val, d)
      ELSE IF o.st = "return"
      THEN [st |-> "return", err |-> "problem building", cause |-> <<o.err>> \o o.cause,
            val |-> 0, data |-> d]
      ELSE [o EXCEPT !.data = d]

\* One read step of addReadField run on data = d: the value assigned (or appended) and
\* the data left.  Indexing or slicing past the buffer panics.
execRead(read, d) ==
  IF read.op = "int8"
  THEN IF Len(d) < 1 THEN Panics(d) ELSE Ok(Int8(d[1]), Tail(d))
  ELSE IF read.op = "int16"
  THEN IF Len(d) < 2 THEN Panics(d) ELSE Ok(Int16(Uint16(d)), d)
  ELSE IF read.op = "int32"
  THEN IF Len(d) < 4 THEN Panics(d) ELSE Ok(Int32(SubSeq(d, 1, 4)), d)
  ELSE IF read.op = "int64"
  THEN IF Len(d) < 8 THEN Panics(d)
       ELSE IF read.append THEN Ok(Int32(SubSeq(d, 5, 8)), d)
       ELSE Ok(Int64(d), d)
  ELSE IF read.op = "uuid"
  THEN IF Len(d) < 2 THEN Panics(d) ELSE Ok(Uint16(d), d)
  ELSE IF read.op = "string" THEN execReadString(d)
  ELSE IF read.op = "bytes" THEN execReadBytes(d)
  ELSE execAllocate(read, d)

\* Whether the emitted unit links: every constructor a statement calls is defined by the
\* unit, once.
Resolves(unit) ==
  LET bodies == <<unit.read>> \o [k \in 1..Len(unit.records) |-> unit.records[k].read]
  IN  \A b \in 1..Len(bodies) :
        /\ GoParses(bodies[b])
        /\ \A k \in 1..Len(bodies[b]) :
             bodies[b][k].read.op \in {"inline", "common"} =>
               Cardinality({j \in 1..Len(unit.records) :
                              unit.records[j].ctor = bodies[b][k].read.ctor}) = 1

\* ---------------------------------------------------------------- inputs
\* Bytes the head of a buffer is made of: small counts and lengths, and 0xFF.
ByteVals == {0, 1, 3, 255}

\* The padding after the head: n distinct bytes, none with the continuation bit.
Pad(n) == [k \in 1..n |-> 3 + k]

Buffers == {h \o Pad(n) : h \in SeqsUpTo(ByteVals, MaxHead), n \in {0, PadLen}}

FieldTypes == {<<k>> : k \in PrimitiveKinds} \cup {<<"[]", k>> : k \in PrimitiveKinds}

\* Version-gating strings of the input schemas: none, exact, minimum, range, no digits.
VersionInputs == {<<>>, <<"1">>, <<"0", "+">>, <<"1", "-", "2">>, <<"x">>}

\* Default as json.Unmarshal leaves it in a *any: nil, a string, or a float64.
DefaultInputs ==
  {[type |-> "nil", val |-> 0], [type |-> "string", val |-> <<97, 98, 99>>],
   [type |-> "float64", val |-> 7]}

FieldNames == <<"x", "y", "z", "w">>

MessageField(n, t, v, d) == [Name |-> n, Type |-> t, Versions |-> v, Default |-> d, Fields |-> <<>>]

Message(fields) == [Name |-> <<"F", "o", "o">>, Fields |-> fields, CommonStructs |-> <<>>]

\* A field without gating string or default, with the fields nested in it.
RecordField(n, t, fields) ==
  [Name |-> n, Type |-> t, Versions |-> <<>>, Default |-> [type |-> "nil", val |-> 0],
   Fields |-> fields]

CommonStruct(n, fields) == [Name |-> n, Versions |-> <<>>, Fields |-> fields]

Unit(name, fields, css) == [Name |-> name, Fields |-> fields, CommonStructs |-> css]

\* Messages that refer to records: a common record C (of an int8, a string or an array)
\* before an int8, an array of C, an inline record before an int8, and an inline record
\* that itself refers to C.
RecordSchemas ==
  {Unit(<<"F", "o", "o">>,
        <<RecordField("x", <<"C">>, <<>>), RecordField("y", <<"int8">>, <<>>)>>,
        <<CommonStruct(<<"C">>, <<RecordField("a", t, <<>>)>>)>>) :
     t \in {<<"int8">>, <<"string">>, <<"[]", "int8">>}}
  \cup
  {Unit(<<"F", "o", "o">>, <<RecordField("x", <<"[]", "C">>, <<>>)>>,
        <<CommonStruct(<<"C">>, <<RecordField("a", <<"int8">>, <<>>)>>)>>),
   Unit(<<"F", "o", "o">>,
        <<RecordField("x", <<"B", "a", "r">>, <<RecordField("p", <<"int8">>, <<>>)>>),
          RecordField("y", <<"int8">>, <<>>)>>,
        <<>>),
   Unit(<<"F", "o", "o">>,
        <<RecordField("x", <<"B", "a", "r">>, <<RecordField("p", <<"C">>, <<>>)>>)>>,
        <<CommonStruct(<<"C">>, <<RecordField("a", <<"string">>, <<>>)>>)>>)}

\* One-field messages of every type, gating string and default; longer messages of
\* plain non-array fields; messages that refer to records.
Schemas ==
  RecordSchemas
  \cup
  {Message(<<MessageField("x", t, v, d)>>) :
     t \in FieldTypes, v \in VersionInputs, d \in DefaultInputs}
  \cup
  {Message([k \in 1..Len(kinds) |->
              MessageField(FieldNames[k], <<kinds[k]>>, <<>>, [type |-> "nil", val |-> 0])]) :
     kinds \in UNION {[1..m -> PrimitiveKinds] : m \in 2..MaxFields}}

\* What a field of a compiled unit may be: a primitive kind, an array of one, a reference
\* to the common record C, a name nothing declares, an empty type expression, or an
\* inline record (capitalised or not, array or not, nested one level deeper or not).
UnitFields(n) ==
  {RecordField(n, t, <<>>) :
     t \in {<<"int8">>, <<"int16">>, <<"int32">>, <<"int64">>, <<"uuid">>, <<"string">>,
            <<"bytes">>, <<"[]", "int32">>, <<"[]", "string">>,
            <<"C">>, <<"[]", "C">>, <<"f", "o", "o">>, <<>>}}
  \cup
  {RecordField(n, t, <<RecordField("p", u, <<>>)>>) :
     t \in {<<"B", "a", "r">>, <<"[]", "B", "a", "r">>, <<"b", "a", "r">>},
     u \in {<<"int8">>, <<"bytes">>}}
  \cup
  {RecordField(n, <<"B", "a", "r">>,
               <<RecordField("p", <<"[]", "B", "a", "z">>, <<RecordField("q", <<"int16">>, <<>>)>>)>>)}

\* The common records of a compiled unit: none, or one record C.
UnitCommonStructs ==
  {<<>>}
  \cup
  {<<CommonStruct(<<"C">>, fields)>> :
     fields \in {<<RecordField("a", <<"int8">>, <<>>)>>,
                 <<RecordField("a", <<"int64">>, <<>>), RecordField("b", <<"int16">>, <<>>)>>,
                 <<RecordField("a", <<"string">>, <<>>)>>,
                 <<RecordField("a", <<"[]", "int8">>, <<>>)>>,
                 <<RecordField("a", <<"I", "n">>, <<RecordField("p", <<"int8">>, <<>>)>>)>>}}

\* Field lists of one to MaxFields fields, the k-th named FieldNames[k].
UnitFieldLists ==
  UNION {{fs \in [1..m -> UNION {UnitFields(FieldNames[k]) : k \in 1..m}] :
            \A k \in 1..m : fs[k].Name = FieldNames[k]} : m \in 1..MaxFields}

UnitSchemas == {Unit(<<"F", "o", "o">>, fs, css) : fs \in UnitFieldLists, css \in UnitCommonStructs}

\* ---------------------------------------------------------------- actions
\* The read cursor: bytes of the buffer the routine has moved data past.
Cursor(d) == Len(wire) - Len(d)

\* Run, for one schema: generateFile; on an error nothing is written.
Generate ==
  /\ pc = "schema"
  /\ cb' = generateFile(spec)
  /\ pc' = IF cb'.panic THEN "crashed" ELSE IF cb'.err # "" THEN "failed" ELSE "emitted"
  /\ UNCHANGED <<spec, wire, data, version, res, fi, arrLen, i, err, marks, versions, clause,
               cause, runVars>>

\* Read<Name>(data, version) is called: var res <Name>.
Call ==
  /\ pc = "emitted"
  /\ GoParses(cb.read)
  /\ Resolves(cb)
  /\ \E w \in Buffers, v \in 0..MaxVersion :
       /\ wire' = w
       /\ data' = w
       /\ version' = v
  /\ res' = [n \in {spec.Fields[k].Name : k \in 1..Len(spec.Fields)} |->
               ZeroValue(CHOOSE f \in {spec.Fields[k] : k \in 1..Len(spec.Fields)} : f.Name = n)]
  /\ fi' = 1
  /\ marks' = <<0>>
  /\ pc' = "field"
  /\ UNCHANGED <<spec, cb, arrLen, i, err, versions, clause, cause, runVars>>

\* The statement of a non-array field.
ReadScalar ==
  /\ pc = "field"
  /\ fi <= Len(cb.read)
  /\ ~cb.read[fi].array
  /\ LET r == execRead(cb.read[fi].read, data)
     IN  /\ data' = r.data
         /\ res' = IF r.st = "ok" THEN [res EXCEPT ![cb.read[fi].read.field] = r.val] ELSE res
         /\ fi' = IF r.st = "ok" THEN fi + 1 ELSE fi
         /\ marks' = IF r.st = "ok" THEN Append(marks, Cursor(r.data)) ELSE marks
         /\ pc' = IF r.st = "ok" THEN "field" ELSE IF r.st = "return" THEN "returned"
                 ELSE IF r.st = "panic" THEN "panicked" ELSE "nested"
         /\ err' = r.err
         /\ cause' = r.cause
  /\ UNCHANGED <<spec, cb, wire, version, arrLen, i, versions, clause, runVars>>

\* The head of an array field's statement: the count is read and decremented.
ArrayHeader ==
  /\ pc = "field"
  /\ fi <= Len(cb.read)
  /\ cb.read[fi].array
  /\ LET r == ReadUvarint(data)
     IN  /\ pc' = IF r.err THEN "returned" ELSE "loop"
         /\ err' = IF r.err THEN "problem reading uvarint" ELSE err
         /\ arrLen' = IF r.err THEN arrLen ELSE U64Dec(r.val)
  /\ i' = 0
  /\ UNCHANGED <<spec, cb, wire, data, version, res, fi, marks, versions, clause, cause, runVars>>

\* One pass of the loop body: an element is read and appended.
ArrayElem ==
  /\ pc = "loop"
  /\ U64Less(i, arrLen)
  /\ i < MaxIter
  /\ LET r == execRead(cb.read[fi].read, data)
     IN  /\ data' = r.data
         /\ res' = IF r.st = "ok"
                   THEN [res EXCEPT ![cb.read[fi].read.field] = Append(@, r.val)] ELSE res
         /\ i' = IF r.st = "ok" THEN i + 1 ELSE i
         /\ pc' = IF r.st = "ok" THEN "loop" ELSE IF r.st = "return" THEN "returned"
                 ELSE IF r.st = "panic" THEN "panicked" ELSE "nested"
         /\ err' = r.err
         /\ cause' = r.cause
  /\ UNCHANGED <<spec, cb, wire, version, fi, arrLen, marks, versions, clause, runVars>>

\* The loop condition fails: the array field's statement is over.
ArrayDone ==
  /\ pc = "loop"
  /\ ~U64Less(i, arrLen)
  /\ fi' = fi + 1
  /\ marks' = Append(marks, Cursor(data))
  /\ pc' = "field"
  /\ UNCHANGED <<spec, cb, wire, data, version, res, arrLen, i, err, versions, clause, cause,
               runVars>>

\* return res, nil
Return ==
  /\ pc = "field"
  /\ fi > Len(cb.read)
  /\ pc' = "returned"
  /\ err' = ""
  /\ UNCHANGED <<spec, cb, wire, data, version, res, fi, arrLen, i, marks, versions, clause,
               cause, runVars>>

NoClause == [ok |-> FALSE, lines |-> <<>>]

\* util.NewCodeBuffer(): nothing added yet.
NewCodeBuffer ==
  [panic |-> FALSE, err |-> "", imports |-> <<>>, type |-> <<>>, records |-> <<>>, read |-> <<>>]

Init ==
  /\ spec \in Schemas
  /\ cb = NewCodeBuffer
  /\ pc = "schema"
  /\ wire = <<>>
  /\ data = <<>>
  /\ version = 0
  /\ res = <<>>
  /\ fi = 0
  /\ arrLen = 0
  /\ i = 0
  /\ err = ""
  /\ cause = <<>>
  /\ entries = <<>>
  /\ entry = 0
  /\ written = <<>>
  /\ marks = <<>>
  /\ versions = <<>>
  /\ clause = NoClause

Next == Generate \/ Call \/ ReadScalar \/ ArrayHeader \/ ArrayElem \/ ArrayDone \/ Return

Spec == Init /\ [][Next]_vars

\* ---------------------------------------------------------------- addVersionIfClause on its own
VersionChars == {"0", "1", "2", "-", "+", "x"}

\* addVersionIfClause is applied to one version-gating string.
ParseVersions ==
  /\ pc = "versions"
  /\ clause' = addVersionIfClause(versions)
  /\ pc' = "parsed"
  /\ UNCHANGED <<spec, cb, wire, data, version, res, fi, arrLen, i, err, marks, versions,
               cause, runVars>>

InitVersions ==
  /\ versions \in SeqsUpTo(VersionChars, MaxVerLen)
  /\ clause = NoClause
  /\ pc = "versions"
  /\ spec = Message(<<>>)
  /\ cb = NewCodeBuffer
  /\ wire = <<>>
  /\ data = <<>>
  /\ version = 0
  /\ res = <<>>
  /\ fi = 0
  /\ arrLen = 0
  /\ i = 0
  /\ err = ""
  /\ cause = <<>>
  /\ entries = <<>>
  /\ entry = 0
  /\ written = <<>>
  /\ marks = <<>>

NextVersions == ParseVersions

SpecVersions == InitVersions /\ [][NextVersions]_vars

\* ---------------------------------------------------------------- one unit compiled
InitUnit ==
  /\ spec \in UnitSchemas
  /\ cb = NewCodeBuffer
  /\ pc = "schema"
  /\ wire = <<>>
  /\ data = <<>>
  /\ version = 0
  /\ res = <<>>
  /\ fi = 0
  /\ arrLen = 0
  /\ i = 0
  /\ err = ""
  /\ cause = <<>>
  /\ entries = <<>>
  /\ entry = 0
  /\ written = <<>>
  /\ marks = <<>>
  /\ versions = <<>>
  /\ clause = NoClause

NextUnit == Generate

SpecUnit == InitUnit /\ [][NextUnit]_vars

\* ---------------------------------------------------------------- a run over several units
\* File names of the schema files, in the order os.ReadDir lists them, and the message
\* each declares.
UnitNames == <<<<"B", "a", "r">>, <<"B", "a", "z">>, <<"F", "o", "o">>, <<"Q", "u", "x">>>>

\* What a schema file of a run holds: an int8, a string, a field with an empty type
\* expression, or a gated string with a numeric default.
RunFields ==
  {<<RecordField("x", <<"int8">>, <<>>)>>,
   <<RecordField("x", <<"string">>, <<>>)>>,
   <<RecordField("x", <<>>, <<>>)>>,
   <<MessageField("x", <<"string">>, <<"1">>, [type |-> "float64", val |-> 7])>>}

RunEntries ==
  UNION {{[k \in 1..n |-> Unit(UnitNames[k], fs[k], <<>>)] : fs \in [1..n -> RunFields]} :
           n \in 1..MaxUnits}

\* writeFile(filepath.Join(*out, filename), cb): os.Create truncates a file of that name.
writeFile(files, filename, text) ==
  SelectSeq(files, LAMBDA f : f.file # filename) \o <<[file |-> filename, text |-> text]>>

\* One pass of the loop of Run over the directory entries: the schema is compiled and,
\* unless generateFile returned an error (Run returns it) or panicked, written.
RunEntry ==
  /\ pc = "run"
  /\ entry <= Len(entries)
  /\ spec' = entries[entry]
  /\ cb' = generateFile(entries[entry])
  /\ pc' = IF cb'.panic THEN "crashed" ELSE IF cb'.err # "" THEN "failed" ELSE "run"
  /\ written' = IF cb'.panic \/ cb'.err # "" THEN written
                ELSE writeFile(written, entries[entry].Name \o <<".go">>, cb')
  /\ entry' = entry + 1
  /\ UNCHANGED <<entries, wire, data, version, res, fi, arrLen, i, err, cause, marks, versions,
                 clause>>

\* return nil after the last entry.
RunReturn ==
  /\ pc = "run"
  /\ entry > Len(entries)
  /\ pc' = "done"
  /\ UNCHANGED <<spec, cb, wire, data, version, res, fi, arrLen, i, err, cause, marks, versions,
                 clause, runVars>>

InitRun ==
  /\ entries \in RunEntries
  /\ entry = 1
  /\ written = <<>>
  /\ pc = "run"
  /\ spec = Message(<<>>)
  /\ cb = NewCodeBuffer
  /\ wire = <<>>
  /\ data = <<>>
  /\ version = 0
  /\ res = <<>>
  /\ fi = 0
  /\ arrLen = 0
  /\ i = 0
  /\ err = ""
  /\ cause = <<>>
  /\ marks = <<>>
  /\ versions = <<>>
  /\ clause = NoClause

NextRun == RunEntry \/ RunReturn

SpecRun == InitRun /\ [][NextRun]_vars

\* ---------------------------------------------------------------- what the claims speak of
AllDigits(s) == Len(s) > 0 /\ \A k \in 1..Len(s) : IsDigit(s[k])

DigitVal(c) == CHOOSE n \in 0..9 : <<"0", "1", "2", "3", "4", "5", "6", "7", "8", "9">>[n + 1] = c

RECURSIVE NumVal(_)
NumVal(s) == IF s = <<>> THEN 0 ELSE 10 * NumVal(SubSeq(s, 1, Len(s) - 1)) + DigitVal(s[Len(s)])

\* The predicate a version-gating string denotes when read as a whole: lo-hi, lo+ or n.
Predicate(s) ==
  IF \E k \in 1..Len(s) : s[k] = "-" /\ AllDigits(SubSeq(s, 1, k - 1)) /\ AllDigits(SubSeq(s, k + 1, Len(s)))
  THEN LET k == CHOOSE k \in 1..Len(s) : s[k] = "-"
       IN  [tag |-> "Range", lo |-> SubSeq(s, 1, k - 1), hi |-> SubSeq(s, k + 1, Len(s))]
  ELSE IF Len(s) >= 2 /\ s[Len(s)] = "+" /\ AllDigits(SubSeq(s, 1, Len(s) - 1))
  THEN [tag |-> "Minimum", lo |-> SubSeq(s, 1, Len(s) - 1), hi |-> <<>>]
  ELSE IF AllDigits(s) THEN [tag |-> "Exact", lo |-> s, hi |-> s]
  ELSE [tag |-> "None", lo |-> <<>>, hi |-> <<>>]

Holds(p, v) ==
  IF p.tag = "Range" THEN NumVal(p.lo) <= v /\ v <= NumVal(p.hi)
  ELSE IF p.tag = "Minimum" THEN v >= NumVal(p.lo)
  ELSE IF p.tag = "Exact" THEN v = NumVal(p.lo)
  ELSE TRUE

\* The predicate a result of addVersionIfClause stands for, by the line it added.
Yields(c) ==
  IF ~c.ok THEN [tag |-> "None", lo |-> <<>>, hi |-> <<>>]
  ELSE IF c.lines[1].fmt = "if version >= %d || version <= %d"
  THEN [tag |-> "Range", lo |-> c.lines[1].args[1], hi |-> c.lines[1].args[2]]
  ELSE IF c.lines[1].fmt = "if version >= %d"
  THEN [tag |-> "Minimum", lo |-> c.lines[1].args[1], hi |-> <<>>]
  ELSE [tag |-> "Exact", lo |-> c.lines[1].args[1], hi |-> c.lines[1].args[1]]

UnexpectedNull ==
  {"non-nullable field was serialized as null", "non-nullable field group was serialized as null"}

InvalidLength == {"string field had invalid length"}

UnsupportedDefaultValue ==
  {"unexpected value type for string default", "unexpected value type for int default"}

\* Field k's statement has been run to its end (the routine went on to what follows it).
Passed(k) == Len(marks) > k

\* Field k's statement has been entered.
Entered(k) == Len(marks) >= k

\* Field k's statement is over: passed, or the routine ended inside it.
Settled(k) == Passed(k) \/ (Entered(k) /\ fi = k /\ pc \in {"returned", "panicked"})

\* The buffer from the cursor at which field k's statement was entered.
From(k) == SubSeq(wire, marks[k] + 1, Len(wire))

\* Bytes a base-128 count prefix at the head of b takes.
PrefixLen(b) == Min({k \in 1..Len(b) : b[k] < 128})

Base(field) == deconstructFieldType(field.Type).ft

IsArray(field) == deconstructFieldType(field.Type).isArray

\* C1: the guard emitted for a field admits version v exactly when the predicate its
\* gating string denotes holds at v: the field's decode step runs at the version the
\* routine is called with only if the predicate holds, and a routine that returns
\* normally has run the step of every field whose predicate holds.
C1_GuardAdmitsIffPredicateHolds ==
  \A k \in 1..Len(spec.Fields) :
    Predicate(spec.Fields[k].Versions).tag # "None" =>
      /\ Passed(k) => Holds(Predicate(spec.Fields[k].Versions), version)
      /\ (pc = "returned" /\ err = "" /\ Holds(Predicate(spec.Fields[k].Versions), version))
           => Passed(k)

\* C2: addVersionIfClause classifies a gating string by full-string match: entirely lo-hi
\* gives Range(lo, hi), entirely lo+ gives Minimum(lo), entirely n gives Exact(n), and
\* any other string gives no predicate.
C2_ClassifiedByFullStringMatch ==
  pc = "parsed" => Yields(clause) = Predicate(versions)

\* C3: a field with a version predicate and no default, at a version where the predicate
\* is false, keeps its zero value and has no byte consumed for it, and compiling a schema
\* of such fields does not fail.
C3_FalsePredicateLeavesZeroValue ==
  /\ \A k \in 1..Len(spec.Fields) :
       ( /\ Predicate(spec.Fields[k].Versions).tag # "None"
         /\ spec.Fields[k].Default.type = "nil"
         /\ ~Holds(Predicate(spec.Fields[k].Versions), version)
         /\ Passed(k) )
       => /\ res[spec.Fields[k].Name] = ZeroValue(spec.Fields[k])
          /\ marks[k + 1] = marks[k]
  /\ (\A k \in 1..Len(spec.Fields) : spec.Fields[k].Default.type = "nil")
       => pc \notin {"failed", "crashed"}

\* The value a default literal gives a field of the matching kind.
DefaultValue(field) ==
  IF field.Type = <<"int64">> THEN <<0, field.Default.val>> ELSE field.Default.val

\* A default literal of the field's kind: a string on a string field, a number on an
\* integer field.
MatchingDefault(field) ==
  \/ field.Type = <<"string">> /\ field.Default.type = "string"
  \/ field.Type \in {<<"int8">>, <<"int16">>, <<"int32">>, <<"int64">>}
       /\ field.Default.type \in {"int", "float64"}

MismatchedDefault(field) ==
  \/ field.Type = <<"string">> /\ field.Default.type \in {"int", "float64"}
  \/ field.Type \in {<<"int8">>, <<"int16">>, <<"int32">>, <<"int64">>}
       /\ field.Default.type = "string"

\* C4: a field with a version predicate and a default of the matching kind gets the
\* default, with no byte consumed, at a version where the predicate is false, and is read
\* from the wire at a version where it is true.
C4_FalsePredicateAssignsDefault ==
  \A k \in 1..Len(spec.Fields) :
    ( /\ Predicate(spec.Fields[k].Versions).tag # "None"
      /\ MatchingDefault(spec.Fields[k])
      /\ pc \notin {"schema", "failed", "crashed", "emitted"} )
    => IF Holds(Predicate(spec.Fields[k].Versions), version)
       THEN Passed(k) => res[spec.Fields[k].Name] = execRead(cb.read[k].read, From(k)).val
       ELSE Passed(k) => /\ res[spec.Fields[k].Name] = DefaultValue(spec.Fields[k])
                         /\ marks[k + 1] = marks[k]

\* C5: for a field with a default literal (behind a version predicate, where the default
\* is used), compilation fails with UnsupportedDefaultValue if and only if the literal's
\* kind does not match the field's kind.
C5_DefaultKindMismatchFailsCompilation ==
  \A k \in 1..Len(spec.Fields) :
    (pc # "schema" /\ Predicate(spec.Fields[k].Versions).tag # "None") =>
      /\ MatchingDefault(spec.Fields[k]) => cb.err \notin UnsupportedDefaultValue
      /\ MismatchedDefault(spec.Fields[k]) => pc = "failed" /\ cb.err \in UnsupportedDefaultValue

\* Width in bytes of a fixed-width kind on the wire.
Width(kind) ==
  IF kind = "int8" THEN 1
  ELSE IF kind = "int16" THEN 2
  ELSE IF kind = "int32" THEN 4
  ELSE IF kind = "int64" THEN 8
  ELSE 16

\* The integer of kind int8, int16 or int32 that Width(kind) big-endian bytes stand for.
WireInt(kind, b) ==
  IF kind = "int8" THEN Int8(b[1])
  ELSE IF kind = "int16" THEN Int16(Uint16(b))
  ELSE Int32(b)

\* C6: an array field whose count prefix decodes to 0 makes the routine fail with
\* UnexpectedNull: the loop is never entered with the decremented count, and the routine
\* ends inside the field with that error.
C6_NullArrayFailsUnexpectedNull ==
  \A k \in 1..Len(spec.Fields) :
    ( /\ pc \in {"field", "loop", "returned", "panicked"}
      /\ IsArray(spec.Fields[k])
      /\ Entered(k)
      /\ ~ReadUvarint(From(k)).err
      /\ ReadUvarint(From(k)).val = 0 )
    => /\ ~(pc = "loop" /\ fi = k)
       /\ ~Passed(k)
       /\ Settled(k) => pc = "returned" /\ err \in UnexpectedNull

\* C7: an array field of fixed-width integers whose count prefix decodes to N >= 1 decodes
\* exactly N-1 elements, element j from the bytes after the prefix and the j-1 elements
\* before it, in wire order.
C7_ArrayDecodesElementsInWireOrder ==
  \A k \in 1..Len(spec.Fields) :
    ( /\ IsArray(spec.Fields[k])
      /\ Base(spec.Fields[k]) \in {<<"int8">>, <<"int16">>, <<"int32">>}
      /\ Passed(k)
      /\ ~ReadUvarint(From(k)).err
      /\ ReadUvarint(From(k)).val >= 1
      /\ PrefixLen(From(k)) + (ReadUvarint(From(k)).val - 1) * Width(Base(spec.Fields[k])[1])
           <= Len(From(k)) )
    => LET kind == Base(spec.Fields[k])[1]
           n    == ReadUvarint(From(k)).val - 1
           at   == PrefixLen(From(k))
       IN  /\ Len(res[spec.Fields[k].Name]) = n
           /\ \A j \in 1..n :
                res[spec.Fields[k].Name][j] =
                  WireInt(kind, SubSeq(From(k), at + (j - 1) * Width(kind) + 1, at + j * Width(kind)))

\* C8: the decode step of a non-array field of a fixed-width kind advances the cursor by
\* the kind's width: 1, 2, 4, 8 bytes for int8..int64 and 16 for uuid.
C8_FixedWidthAdvancesCursor ==
  \A k \in 1..Len(spec.Fields) :
    ( /\ ~IsArray(spec.Fields[k])
      /\ Base(spec.Fields[k]) \in {<<"int8">>, <<"int16">>, <<"int32">>, <<"int64">>, <<"uuid">>}
      /\ Passed(k) )
    => marks[k + 1] = marks[k] + Width(Base(spec.Fields[k])[1])

\* C9: a string whose length prefix is 0xFFFF fails with UnexpectedNull, any other prefix
\* above 0x7FFF fails with InvalidLength, and a bytes field whose count prefix is the null
\* sentinel 0 fails with UnexpectedNull; none of them decodes a value.
C9_NullAndOversizedLengthsFail ==
  \A k \in 1..Len(spec.Fields) :
    ( /\ pc \in {"field", "loop", "returned", "panicked"}
      /\ ~IsArray(spec.Fields[k])
      /\ Settled(k) )
    => /\ ( /\ Base(spec.Fields[k]) = <<"string">>
            /\ Len(From(k)) >= 2
            /\ Uint16(From(k)) = 65535 )
          => ~Passed(k) /\ pc = "returned" /\ err \in UnexpectedNull
       /\ ( /\ Base(spec.Fields[k]) = <<"string">>
            /\ Len(From(k)) >= 2
            /\ Uint16(From(k)) > 32767
            /\ Uint16(From(k)) # 65535 )
          => ~Passed(k) /\ pc = "returned" /\ err \in InvalidLength
       /\ ( /\ Base(spec.Fields[k]) = <<"bytes">>
            /\ ~ReadUvarint(From(k)).err
            /\ ReadUvarint(From(k)).val = 0 )
          => ~Passed(k) /\ pc = "returned" /\ err \in UnexpectedNull

\* C10: a string or bytes field whose length prefix decodes to a valid length L decodes to
\* the L bytes after the prefix and leaves the cursor on the first byte after them.
C10_PayloadFollowsLengthPrefix ==
  \A k \in 1..Len(spec.Fields) :
    (~IsArray(spec.Fields[k]) /\ Passed(k)) =>
      /\ ( /\ Base(spec.Fields[k]) = <<"string">>
           /\ Uint16(From(k)) <= 32767
           /\ 2 + Uint16(From(k)) <= Len(From(k)) )
         => /\ res[spec.Fields[k].Name] = SubSeq(From(k), 3, 2 + Uint16(From(k)))
            /\ marks[k + 1] = marks[k] + 2 + Uint16(From(k))
      /\ ( /\ Base(spec.Fields[k]) = <<"bytes">>
           /\ ReadUvarint(From(k)).val >= 1
           /\ PrefixLen(From(k)) + ReadUvarint(From(k)).val <= Len(From(k)) )
         => /\ res[spec.Fields[k].Name] =
                 SubSeq(From(k), PrefixLen(From(k)) + 1, PrefixLen(From(k)) + ReadUvarint(From(k)).val)
            /\ marks[k + 1] = marks[k] + PrefixLen(From(k)) + ReadUvarint(From(k)).val

\* The fields of the message and of its common records are all non-array fixed-width
\* integers.
IntegersOnly(m) ==
  \A k \in 1..Len(scannedFields(m)) :
    /\ scannedFields(m)[k].Type \in {<<"int8">>, <<"int16">>, <<"int32">>, <<"int64">>}
    /\ scannedFields(m)[k].Fields = <<>>

\* C11: a message whose fields, and whose common records' fields, are all non-array
\* fixed-width integers is emitted with a dependency list of exactly encoding/binary.
C11_IntegersNeedOnlyBinary ==
  (pc = "emitted" /\ IntegersOnly(spec)) => cb.imports = <<"encoding/binary">>

C11_Witness ==
  /\ pc = "emitted"
  /\ IntegersOnly(spec)
  /\ Len(spec.Fields) >= 2
  /\ Len(spec.CommonStructs) > 0
  /\ cb.imports = <<"encoding/binary">>

UnrecognizedType == {"unrecognized field type"}

\* Every field of a field list, those nested at any depth included.
RECURSIVE EveryField(_)
EveryField(fields) ==
  IF fields = <<>> THEN <<>>
  ELSE <<Head(fields)>> \o EveryField(Head(fields).Fields) \o EveryField(Tail(fields))

\* Every field of a schema: of the message, of its common records, of the inline records.
SchemaFields(m) == EveryField(scannedFields(m))

\* The records a schema declares: its common records by name, its inline records by the
\* base kind of the field that carries their fields.
DeclaredRecords(m) ==
  {m.CommonStructs[k].Name : k \in 1..Len(m.CommonStructs)}
  \cup {Base(SchemaFields(m)[k]) : k \in {j \in 1..Len(SchemaFields(m)) : SchemaFields(m)[j].Fields # <<>>}}

\* The field's base name is empty, or names neither a primitive kind nor a declared record.
Unrecognized(m, field) ==
  \/ Base(field) = <<>>
  \/ Base(field) \notin {<<k>> : k \in PrimitiveKinds} \cup DeclaredRecords(m)

\* C12: a schema with a field whose type expression has an empty base name, or names
\* neither a primitive kind nor a record the schema declares, ends compilation with the
\* UnrecognizedType error, returned and not a crash, and nothing is emitted for the unit.
C12_UnknownTypeFailsCompilation ==
  (pc # "schema" /\ \E k \in 1..Len(SchemaFields(spec)) : Unrecognized(spec, SchemaFields(spec)[k]))
    => pc = "failed" /\ cb.err \in UnrecognizedType

\* The inline records of a schema: the fields that carry fields of their own, under the
\* message, under a common record or under another inline record.
InlineRecords(m) == SelectSeq(SchemaFields(m), LAMBDA f : f.Fields # <<>>)

\* How many records of the given kind were emitted for the schema record r.
EmittedFor(kind, r) ==
  Cardinality({k \in 1..Len(cb.records) : cb.records[k].kind = kind /\ cb.records[k].src = r})

\* How often r occurs in the sequence q.
Occurrences(q, r) == Cardinality({k \in 1..Len(q) : q[k] = r})

\* C13: the records emitted with a type definition and a decode routine are the message,
\* every common record and every inline record reachable through nested field lists at
\* any depth (under a message field, another inline record or a common record's field),
\* each once, and every inline record before the inline records nested in it.
C13_EveryReachableRecordEmittedOnce ==
  pc = "emitted" =>
    /\ Len(cb.type) = Len(spec.Fields) /\ Len(cb.read) = Len(spec.Fields)
    /\ \A k \in 1..Len(spec.CommonStructs) : EmittedFor("common", spec.CommonStructs[k]) = 1
    /\ \A k \in 1..Len(InlineRecords(spec)) :
         EmittedFor("inline", InlineRecords(spec)[k])
           = Occurrences(InlineRecords(spec), InlineRecords(spec)[k])
    /\ Len(cb.records) = Len(spec.CommonStructs) + Len(InlineRecords(spec))
    /\ \A a \in 1..Len(cb.records) :
         cb.records[a].kind = "inline" =>
           \A k \in 1..Len(cb.records[a].src.Fields) :
             cb.records[a].src.Fields[k].Fields # <<>> =>
               \E b \in (a + 1)..Len(cb.records) :
                 /\ cb.records[b].kind = "inline"
                 /\ cb.records[b].src = cb.records[a].src.Fields[k]

\* The names of the emitted type definitions, and of the emitted decode routines.
TypeNames == <<spec.Name>> \o [k \in 1..Len(cb.records) |-> cb.records[k].type]

RoutineNames ==
  <<<<"R", "e", "a", "d">> \o spec.Name>> \o [k \in 1..Len(cb.records) |-> cb.records[k].ctor]

\* The emitted struct bodies, and the emitted routine bodies.
StructBodies == <<cb.type>> \o [k \in 1..Len(cb.records) |-> cb.records[k].fields]

RoutineBodies == <<cb.read>> \o [k \in 1..Len(cb.records) |-> cb.records[k].read]

\* The record a struct field's Go type names, <<>> when it is not a record type.
RecordNamed(type) ==
  LET base == IF type # <<>> /\ type[1] = "[]" THEN Tail(type) ELSE type
  IN  IF base \in {<<k>> : k \in PrimitiveKinds \cup {"uint16", "[]byte"}} THEN <<>> ELSE base

\* C14: every record name the emitted unit refers to (a struct field's type, a
\* constructor's return type, the constructor a record-reference step calls) resolves to
\* exactly one emitted definition; an inline record is defined, constructed and referred
\* to as <OwningMessageName><CapitalizedFieldBaseKind>, a common record under its declared
\* name; no two emitted type definitions and no two decode routines share a name.
C14_RecordNamesResolveToOneDefinition ==
  pc = "emitted" =>
    /\ \A b \in 1..Len(StructBodies) : \A k \in 1..Len(StructBodies[b]) :
         RecordNamed(StructBodies[b][k].type) # <<>>
           => Occurrences(TypeNames, RecordNamed(StructBodies[b][k].type)) = 1
    /\ \A k \in 1..Len(cb.records) : Occurrences(TypeNames, cb.records[k].ret) = 1
    /\ \A b \in 1..Len(RoutineBodies) : \A k \in 1..Len(RoutineBodies[b]) :
         RoutineBodies[b][k].read.op \in {"inline", "common"}
           => Occurrences(RoutineNames, RoutineBodies[b][k].read.ctor) = 1
    /\ \A k \in 1..Len(cb.records) :
         IF cb.records[k].kind = "inline"
         THEN /\ cb.records[k].type = spec.Name \o capitalize(Base(cb.records[k].src))
              /\ cb.records[k].ret = spec.Name \o capitalize(Base(cb.records[k].src))
         ELSE /\ cb.records[k].type = cb.records[k].src.Name
              /\ cb.records[k].ret = cb.records[k].src.Name
    /\ \A k \in 1..Len(TypeNames) : Occurrences(TypeNames, TypeNames[k]) = 1
    /\ \A k \in 1..Len(RoutineNames) : Occurrences(RoutineNames, RoutineNames[k]) = 1

\* The packages the lines of one emitted statement call into: binary.ReadUvarint,
\* bytes.NewReader and fmt.Errorf in the head of an array loop and in addReadBytes,
\* binary.BigEndian and fmt.Errorf in addReadString, binary.BigEndian in the wider
\* integers, fmt.Errorf after a constructor call.
packagesUsed(stmt) ==
  (IF stmt.array THEN {"bytes", "encoding/binary", "fmt"} ELSE {})
  \cup (IF stmt.read.op = "bytes" THEN {"bytes", "encoding/binary", "fmt"}
        ELSE IF stmt.read.op = "string" THEN {"encoding/binary", "fmt"}
        ELSE IF stmt.read.op \in {"int16", "int32", "int64", "uuid"} THEN {"encoding/binary"}
        ELSE IF stmt.read.op \in {"inline", "common"} THEN {"fmt"}
        ELSE {})

\* The packages the emitted routines of the whole unit call into.
PackagesUsed ==
  UNION {UNION {packagesUsed(RoutineBodies[b][k]) : k \in 1..Len(RoutineBodies[b])} :
           b \in 1..Len(RoutineBodies)}

\* C15: the dependency list, computed from the message's own fields and the common
\* records' fields only, is sorted, free of duplicates and equal to the set of packages
\* the emitted decode routines of the whole unit use, the inline records' routines
\* included: none used is missing, none listed is unused except encoding/binary.
C15_ImportsAreThePackagesUsed ==
  pc = "emitted" =>
    /\ \A k \in 1..Len(cb.imports) - 1 : stringsLess(cb.imports[k], cb.imports[k + 1])
    /\ PackagesUsed \subseteq {cb.imports[k] : k \in 1..Len(cb.imports)}
    /\ {cb.imports[k] : k \in 1..Len(cb.imports)} \subseteq PackagesUsed \cup {"encoding/binary"}

\* Statement k of the routine decodes a non-array field that refers to a record.
RecordReference(k) == ~cb.read[k].array /\ cb.read[k].read.op \in {"inline", "common"}

\* The referenced record's decode routine, run on the buffer left when statement k was
\* entered.
Referenced(k) == construct(cb.read[k].read.ctor, From(k))

\* C16: decoding a record-reference field runs the referenced record's decode routine
\* against the remaining buffer; a failure inside it makes the referencing routine fail
\* with an error that wraps it; on success the field holds the record and the referencing
\* routine's cursor continues at the first byte the nested record did not consume.
C16_RecordReferenceAdvancesCursor ==
  \A k \in 1..Len(spec.Fields) :
    ( /\ pc \in {"field", "loop", "returned", "panicked", "nested"}
      /\ RecordReference(k)
      /\ Settled(k) )
    => /\ Referenced(k).st = "return" =>
            /\ pc = "returned" /\ fi = k
            /\ err = "problem building"
            /\ cause = <<Referenced(k).err>> \o Referenced(k).cause
       /\ Referenced(k).st = "ok" =>
            /\ Passed(k)
            /\ res[spec.Fields[k].Name] = Referenced(k).val
            /\ marks[k + 1] = Len(wire) - Len(Referenced(k).data)

\* Compilation of the unit fails: generateFile returns an error, or does not return.
FailsToCompile(m) == generateFile(m).panic \/ generateFile(m).err # ""

\* The files written under the given name.
Written(filename) == SelectSeq(written, LAMBDA f : f.file = filename)

\* C17: in a run over several units, no output is written for a unit whose compilation
\* fails, and every other unit, before or after the failing one, has its output produced
\* as if it were compiled alone.
C17_FailingUnitLeavesOthersUnaffected ==
  pc \in {"done", "failed", "crashed"} =>
    \A k \in 1..Len(entries) :
      IF FailsToCompile(entries[k])
      THEN Written(entries[k].Name \o <<".go">>) = <<>>
      ELSE Written(entries[k].Name \o <<".go">>)
             = <<[file |-> entries[k].Name \o <<".go">>, text |-> generateFile(entries[k])]>>

====
